---- MODULE Spec2Model ----
(***************************************************************************)
(* Model of deepnog's data loading (src/tool/dataset.py): the vocabulary   *)
(* of AminoAcidWordEmbedding, the sharded ProteinIterator, ProteinDataset  *)
(* and collate_sequences.                                                  *)
(*                                                                         *)
(* Python strings are sequences of one-character strings, so that          *)
(* formatting an identifier and reading its prefix back are computations.  *)
(***************************************************************************)
EXTENDS Integers, Sequences, FiniteSets, TLC

VARIABLES
    source,        \* the records of the sequence file, in file order
    num_workers,   \* DataLoader's num_workers; 0 = single-process loading
    cursor,        \* per process: records already drawn from its self.iter
    its,           \* the ProteinIterator objects created so far
    alphabet,      \* argument of gen_amino_acid_vocab (vocabulary runs)
    vocab,         \* its result
    batch,         \* argument of collate_sequences
    zero_padding,  \* argument of collate_sequences
    collated,      \* outcome of collate_sequences
    path,          \* what the path given to ProteinDataset names
    dataset,       \* outcome of ProteinDataset.__init__
    client         \* the run of the command line client

vars == <<source, num_workers, cursor, its, alphabet, vocab, batch,
          zero_padding, collated, path, dataset, client>>

\* ------------------------------------------------------------------ bounds
MaxRecords == 3     \* records in the file
MaxWorkers == 2     \* DataLoader worker processes
MaxIters == 2       \* __iter__ calls on one ProteinDataset
MaxCalls == 3       \* __next__ calls on one iterator of that dataset
MaxAlphabet == 3    \* letters of an alphabet handed to the vocabulary
MaxBatch == 2       \* records in a batch handed to collate_sequences
MaxEncoded == 2     \* length of an encoded sequence in such a batch

\* ----------------------------------------------------------------- strings
Uppers == <<"A","B","C","D","E","F","G","H","I","J","K","L","M",
            "N","O","P","Q","R","S","T","U","V","W","X","Y","Z">>
Lowers == <<"a","b","c","d","e","f","g","h","i","j","k","l","m",
            "n","o","p","q","r","s","t","u","v","w","x","y","z">>

IndexIn(seq, c) == CHOOSE i \in 1..Len(seq) : seq[i] = c
Has(seq, c) == \E i \in 1..Len(seq) : seq[i] = c

\* str.upper() and str.lower() of one character (ASCII)
upper(c) == IF Has(Lowers, c) THEN Uppers[IndexIn(Lowers, c)] ELSE c
lower(c) == IF Has(Uppers, c) THEN Lowers[IndexIn(Uppers, c)] ELSE c

Digits == <<"0","1","2","3","4","5","6","7","8","9">>

\* str(n) of a non-negative integer, as in an f-string's {n}
RECURSIVE IntToStr(_)
IntToStr(n) == IF n < 10 THEN <<Digits[n + 1]>>
               ELSE IntToStr(n \div 10) \o <<Digits[(n % 10) + 1]>>

\* -------------------------------------------------------------- vocabulary
\* Bio.Alphabet.IUPAC.ExtendedIUPACProtein().letters
ExtendedIUPACProtein ==
    <<"A","C","D","E","F","G","H","I","K","L","M","N","P",
      "Q","R","S","T","V","W","Y","B","X","Z","J","U","O">>

EmptyDict == [x \in {} |-> 0]

\* the two keys written for one letter, in the order the code writes them
KeysOf(aa) == <<upper(aa), lower(aa)>>

\* the code given to the letter at 0-based position i
CodeOfMut(i) == i
CodeOf(i) == i + 1

\* the loop over enumerate(alphabet.letters), i 0-based as in the code: each
\* letter writes its two keys, so a key ends with the code of the last
\* letter that wrote it
Writes(letters, i, k) == k = KeysOf(letters[i + 1])[1] \/ k = KeysOf(letters[i + 1])[2]
LastWriter(letters, k) ==
    CHOOSE i \in 0..(Len(letters) - 1) :
        /\ Writes(letters, i, k)
        /\ \A j \in (i + 1)..(Len(letters) - 1) : ~Writes(letters, j, k)
VocabLoop(letters) ==
    LET keys == {KeysOf(letters[i])[n] : i \in 1..Len(letters), n \in 1..2}
    IN [k \in keys |-> CodeOf(LastWriter(letters, k))]

\* AminoAcidWordEmbedding.gen_amino_acid_vocab(alphabet); <<"None">> stands
\* for alphabet=None
NoAlphabet == <<"None">>
gen_amino_acid_vocab(letters) ==
    VocabLoop(IF letters = NoAlphabet THEN ExtendedIUPACProtein ELSE letters)

\* ---------------------------------------------------------------- encoding
\* [vocab[c] for c in seq]: the codes, or the KeyError of the first
\* character that is no key of vocab
Missing(v, seq) == {i \in 1..Len(seq) : seq[i] \notin DOMAIN v}
FirstMissing(v, seq) ==
    CHOOSE i \in Missing(v, seq) : \A j \in Missing(v, seq) : i <= j

EncodeMut(v, seq) ==
    [kind |-> "value",
     value |-> [i \in 1..Len(seq) |->
                  IF seq[i] \in DOMAIN v THEN v[seq[i]] ELSE 0]]
Encode(v, seq) ==
    IF Missing(v, seq) = {}
    THEN [kind |-> "value", value |-> [i \in 1..Len(seq) |-> v[seq[i]]]]
    ELSE [kind |-> "KeyError", args |-> <<seq[FirstMissing(v, seq)]>>]

\* ------------------------------------------------------------------ source
\* Records as Bio.SeqIO.parse yields them: native id and sequence. The last
\* one holds a character that is no letter of the alphabet.
RecordPool ==
    { [id |-> <<"a">>, seq |-> <<"A", "C">>],
      [id |-> <<"b">>, seq |-> <<"c">>],
      [id |-> <<"7", "_", "c">>, seq |-> <<>>],
      [id |-> <<"d">>, seq |-> <<"A", "*">>] }

Sources == UNION {[1..n -> RecordPool] : n \in 0..MaxRecords}

\* the alphabet SeqIO.parse is given, which every record's seq carries
ParsedAlphabet == ExtendedIUPACProtein

\* gen_amino_acid_vocab(next_seq.seq.alphabet), the same for every record
RecordVocab == gen_amino_acid_vocab(ParsedAlphabet)

\* ---------------------------------------------------------------- iterator
\* self.pos = None
None == -1

\* itertools recipe consume(iterator, n): draws n records, or all that are
\* left when fewer are; raises nothing. cur counts the records drawn so far.
consumeUndoMut(cur, n, total) == IF cur + n <= total THEN cur + n ELSE cur
consumeRewindMut(cur, n, total) == IF cur + n <= total THEN cur + n ELSE 0
consume(cur, n, total) == IF cur + n <= total THEN cur + n ELSE total

\* f'{self.pos}_{next_seq.id}'
Identifier(pos, id) == IntToStr(pos) \o <<"_">> \o id

\* self.step = num_workers - 1
StepOfMut(nw) == nw
StepOf(nw) == nw - 1

\* ProteinIterator.__init__(iterator, num_workers, worker_id); proc names the
\* process whose generator self.iterator is. out, ranks, calls, fetched and
\* last are history: the tuples returned so far, the file positions they
\* were read at, the number of __next__ calls, the file position the latest
\* call's next(self.iterator) read (0: none) and that call's outcome.
ProteinIterator_init(proc, nw, worker_id) ==
    [proc |-> proc, start |-> worker_id, pos |-> None, step |-> StepOf(nw),
     out |-> <<>>, ranks |-> <<>>, calls |-> 0, fetched |-> 0,
     last |-> [kind |-> "none"]]

\* the position bookkeeping of __next__: records to skip, and the new pos
SkipOfMut(it) == IF it.pos # None THEN it.step + 1 ELSE it.start
SkipOf(it) == IF it.pos # None THEN it.step ELSE it.start
NewPosMut(it) == IF it.pos # None THEN it.pos + it.step ELSE it.start + 1
NewPos(it) == IF it.pos # None THEN it.pos + it.step + 1 ELSE it.start + 1

\* ProteinIterator.__next__ on iterator it, whose generator has drawn cur
\* records of src: the iterator and the generator afterwards
ProteinIterator_next(it, cur, src) ==
    LET cur1 == consume(cur, SkipOf(it), Len(src))
        it1 == [it EXCEPT !.pos = NewPos(it), !.calls = @ + 1,
                          !.fetched = IF cur1 >= Len(src) THEN 0 ELSE cur1 + 1]
    IN IF cur1 >= Len(src)
       THEN \* next(self.iterator) raises StopIteration
            [it |-> [it1 EXCEPT !.last = [kind |-> "StopIteration"]],
             cur |-> cur1]
       ELSE LET next_seq == src[cur1 + 1]
                v == RecordVocab
                encoded == Encode(v, next_seq.seq)
            IN IF encoded.kind # "value"
               THEN [it |-> [it1 EXCEPT !.last = encoded], cur |-> cur1 + 1]
               ELSE LET sequence ==
                            [id |-> Identifier(it1.pos, next_seq.id),
                             string |-> next_seq.seq,
                             encoded |-> encoded.value]
                    IN [it |-> [it1 EXCEPT
                                  !.out = Append(@, sequence),
                                  !.ranks = Append(@, cur1 + 1),
                                  !.last = [kind |-> "value"]],
                        cur |-> cur1 + 1]

\* ----------------------------------------------------------------- dataset
\* torch.utils.data.get_worker_info() in process p: None in the main
\* process of single-process loading, else the worker's coordinates
NoWorkerInfo == [num_workers |-> 0, id |-> 0]
get_worker_info(p) ==
    IF num_workers = 0 THEN NoWorkerInfo ELSE [num_workers |-> num_workers, id |-> p]

\* the processes that iterate the dataset: the main process, or the workers
Procs == IF num_workers = 0 THEN {0} ELSE 0..(num_workers - 1)

ProteinDataset_iterMut(p) ==
    LET worker_info == get_worker_info(p)
    IN IF worker_info = NoWorkerInfo
       THEN ProteinIterator_init(p, 2, 0)
       ELSE ProteinIterator_init(p, worker_info.num_workers, worker_info.id)

\* ProteinDataset.__iter__ in process p: wraps that process's self.iter
ProteinDataset_iter(p) ==
    LET worker_info == get_worker_info(p)
    IN IF worker_info = NoWorkerInfo
       THEN ProteinIterator_init(p, 1, 0)
       ELSE ProteinIterator_init(p, worker_info.num_workers, worker_info.id)

\* the dataset stands on an existing file; no client run is looked at
NoClient == [pc |-> "none"]
Opened ==
    /\ path = "file"
    /\ dataset = "open"
    /\ client = NoClient

Idle ==
    /\ Opened
    /\ alphabet = NoAlphabet
    /\ vocab = EmptyDict
    /\ batch = <<>>
    /\ zero_padding = TRUE
    /\ collated = [kind |-> "none"]

\* ProteinDataset.__init__ on an existing file: self.iter = SeqIO.parse(...),
\* one generator per dataset object; every process holds its own copy of
\* the dataset the DataLoader was given
Init ==
    /\ source \in Sources
    /\ num_workers \in 0..MaxWorkers
    /\ cursor = [p \in Procs |-> 0]
    /\ its = <<>>
    /\ Idle

\* a loading process starts its loop over the dataset: iter(dataset)
Iter(p) ==
    /\ \A i \in 1..Len(its) : its[i].proc # p
    /\ its' = Append(its, ProteinDataset_iter(p))
    /\ UNCHANGED <<path, dataset, client, source, num_workers, cursor, alphabet, vocab, batch,
                   zero_padding, collated>>

\* the loop of that process draws the next record; the loop ends at
\* StopIteration, and an exception ends the run (client.py catches none)
Pull(i) ==
    /\ its[i].last.kind \in {"none", "value"}
    /\ LET r == ProteinIterator_next(its[i], cursor[its[i].proc], source)
       IN /\ its' = [its EXCEPT ![i] = r.it]
          /\ cursor' = [cursor EXCEPT ![its[i].proc] = r.cur]
    /\ UNCHANGED <<path, dataset, client, source, num_workers, alphabet, vocab, batch,
                   zero_padding, collated>>

Next ==
    \/ \E p \in Procs : Iter(p)
    \/ \E i \in 1..Len(its) : Pull(i)

Spec == Init /\ [][Next]_vars

\* One ProteinDataset in one process, iterated any number of times, its
\* iterators called in any order, also after an error or the end.
InitDataset ==
    /\ source \in Sources
    /\ num_workers = 0
    /\ cursor = [p \in {0} |-> 0]
    /\ its = <<>>
    /\ Idle

Iterate ==
    /\ Len(its) < MaxIters
    /\ its' = Append(its, ProteinDataset_iter(0))
    /\ UNCHANGED <<path, dataset, client, source, num_workers, cursor, alphabet, vocab, batch,
                   zero_padding, collated>>

Call(i) ==
    /\ its[i].calls < MaxCalls
    /\ LET r == ProteinIterator_next(its[i], cursor[its[i].proc], source)
       IN /\ its' = [its EXCEPT ![i] = r.it]
          /\ cursor' = [cursor EXCEPT ![its[i].proc] = r.cur]
    /\ UNCHANGED <<path, dataset, client, source, num_workers, alphabet, vocab, batch,
                   zero_padding, collated>>

NextDataset ==
    \/ Iterate
    \/ \E i \in 1..Len(its) : Call(i)

SpecDataset == InitDataset /\ [][NextDataset]_vars

\* -------------------------------------------------------------- vocabulary
\* Symbols an alphabet may be made of: letters in both cases, and a symbol
\* that has no case.
SymbolPool == {"A", "a", "b", "C", "*"}

\* alphabets of pairwise distinct symbols
Alphabets ==
    {a \in UNION {[1..n -> SymbolPool] : n \in 0..MaxAlphabet} :
        \A i, j \in 1..Len(a) : i # j => a[i] # a[j]}

NotBuilt == [x \in {"unset"} |-> 0]

InitVocab ==
    /\ alphabet \in Alphabets \cup {NoAlphabet}
    /\ vocab = NotBuilt
    /\ Opened
    /\ source = <<>>
    /\ num_workers = 0
    /\ cursor = [p \in {0} |-> 0]
    /\ its = <<>>
    /\ batch = <<>>
    /\ zero_padding = TRUE
    /\ collated = [kind |-> "none"]

\* vocab = gen_amino_acid_vocab(alphabet)
BuildVocab ==
    /\ vocab = NotBuilt
    /\ vocab' = gen_amino_acid_vocab(alphabet)
    /\ UNCHANGED <<path, dataset, client, source, num_workers, cursor, its, alphabet, batch,
                   zero_padding, collated>>

NextVocab == BuildVocab

SpecVocab == InitVocab /\ [][NextVocab]_vars

\* ----------------------------------------------------------------- collate
\* sequence tuples as __next__ builds them, as far as collate reads them
EncodedPool == UNION {[1..n -> 1..2] : n \in 0..MaxEncoded}
TuplePool ==
    {[id |-> i, encoded |-> e] : i \in {<<"1", "_", "a">>, <<"2", "_", "b">>},
                                 e \in EncodedPool}

\* a batch is a list of tuples, or one tuple that is not in a list
Batches ==
    {[list |-> TRUE, items |-> b] :
        b \in UNION {[1..n -> TuplePool] : n \in 0..MaxBatch}}
    \cup {[list |-> FALSE, items |-> <<t>>] : t \in TuplePool}

\* the largest of a sequence of lengths, from 0, as the first loop finds it
RECURSIVE MaxLenLoop(_, _, _)
MaxLenLoop(b, i, max_len) ==
    IF i > Len(b) THEN max_len
    ELSE MaxLenLoop(b, i + 1,
                    IF Len(b[i].encoded) > max_len THEN Len(b[i].encoded)
                    ELSE max_len)

\* sequences[i, start:end] = query: row i of the zero matrix after the write
PadRowMut(query, max_len) ==
    [c \in 1..max_len |-> IF c > max_len - Len(query)
                          THEN query[c - (max_len - Len(query))] ELSE 0]
PadRow(query, max_len) ==
    [c \in 1..max_len |-> IF c <= Len(query) THEN query[c] ELSE 0]

\* ids = [seq.id for seq in batch]
CollateIds(b) == [i \in 1..Len(b) |-> b[i].id]

collate_sequencesMut(b0, zp) ==
    LET b == b0.items
    IN IF Len(b) = 0 THEN [kind |-> "IndexError"]
       ELSE IF zp \/ Len(b) = 1
       THEN [kind |-> "value",
             sequences |-> [i \in 1..Len(b) |-> PadRow(b[i].encoded, MaxLenLoop(b, 1, 0))],
             shape |-> <<Len(b), MaxLenLoop(b, 1, 0)>>,
             ids |-> CollateIds(b)]
       ELSE [kind |-> "NotImplementedError"]

\* collate_sequences(batch, zero_padding). default_collate(sequences) reads
\* sequences[0] first, an IndexError on a matrix without rows, and else
\* stacks the rows into a tensor of the same shape and content.
collate_sequences(b0, zp) ==
    LET b == b0.items     \* [batch] when batch is no list
        n_data == Len(b)
        max_len == MaxLenLoop(b, 1, 0)
    IN IF zp
       THEN IF n_data = 0
            THEN [kind |-> "IndexError"]
            ELSE [kind |-> "value",
                  sequences |-> [i \in 1..n_data |-> PadRow(b[i].encoded, max_len)],
                  shape |-> <<n_data, max_len>>,
                  ids |-> CollateIds(b)]
       ELSE [kind |-> "NotImplementedError"]

InitCollate ==
    /\ batch \in Batches
    /\ zero_padding \in BOOLEAN
    /\ collated = [kind |-> "none"]
    /\ Opened
    /\ alphabet = NoAlphabet
    /\ vocab = EmptyDict
    /\ source = <<>>
    /\ num_workers = 0
    /\ cursor = [p \in {0} |-> 0]
    /\ its = <<>>

Collate ==
    /\ collated = [kind |-> "none"]
    /\ collated' = collate_sequences(batch, zero_padding)
    /\ UNCHANGED <<path, dataset, client, source, num_workers, cursor, its, alphabet, vocab, batch,
                   zero_padding>>

NextCollate == Collate

SpecCollate == InitCollate /\ [][NextCollate]_vars

\* One ProteinIterator constructed directly on a generator of its own, with
\* any worker coordinates, and called again and again, also after an error
\* and after the end.
MaxPulls == MaxRecords + 3

InitIterator ==
    /\ source \in Sources
    /\ num_workers \in 1..(MaxWorkers + 1)
    /\ cursor = [p \in {0} |-> 0]
    /\ its = <<>>
    /\ Idle

\* ProteinIterator(iterator, num_workers, worker_id)
Construct(worker_id) ==
    /\ its = <<>>
    /\ its' = <<ProteinIterator_init(0, num_workers, worker_id)>>
    /\ UNCHANGED <<path, dataset, client, source, num_workers, cursor,
                   alphabet, vocab, batch, zero_padding, collated>>

\* next(iterator)
Advance ==
    /\ Len(its) = 1
    /\ its[1].calls < MaxPulls
    /\ LET r == ProteinIterator_next(its[1], cursor[0], source)
       IN /\ its' = <<r.it>>
          /\ cursor' = [cursor EXCEPT ![0] = r.cur]
    /\ UNCHANGED <<path, dataset, client, source, num_workers, alphabet,
                   vocab, batch, zero_padding, collated>>

NextIterator ==
    \/ \E worker_id \in 0..(MaxWorkers + 1) : Construct(worker_id)
    \/ Advance

SpecIterator == InitIterator /\ [][NextIterator]_vars

\* the same, with the consumer calling next() as long as it may
SpecIteratorFair == SpecIterator /\ WF_vars(NextIterator)

\* ------------------------------------------------------- opening the file
\* what a path may name
PathKinds == {"file", "directory", "missing"}

\* os.path.isfile(file)
isfileMut(p) == p # "missing"
isfile(p) == p = "file"

\* ProteinDataset.__init__(file): the dataset, or the ValueError raised
ProteinDataset_init(p) == IF isfile(p) THEN "open" ELSE "ValueError"

InitOpen ==
    /\ path \in PathKinds
    /\ dataset = "none"
    /\ client = NoClient
    /\ source \in (IF path = "file" THEN Sources ELSE {<<>>})
    /\ num_workers = 0
    /\ cursor = [p \in {0} |-> 0]
    /\ its = <<>>
    /\ alphabet = NoAlphabet
    /\ vocab = EmptyDict
    /\ batch = <<>>
    /\ zero_padding = TRUE
    /\ collated = [kind |-> "none"]

\* dataset = ProteinDataset(path)
Open ==
    /\ dataset = "none"
    /\ dataset' = ProteinDataset_init(path)
    /\ UNCHANGED <<path, client, source, num_workers, cursor, its, alphabet,
                   vocab, batch, zero_padding, collated>>

\* iter(dataset) and next(iterator), which need the dataset object
IterateOpened == dataset = "open" /\ Iterate
CallOpened == \E i \in 1..Len(its) : Call(i)

NextOpen == Open \/ IterateOpened \/ CallOpened

SpecOpen == InitOpen /\ [][NextOpen]_vars

\* ------------------------------------------------------------------ client
\* Confidence values in tenths: 1.0 is One. A threshold that is absent
\* (None on the command line, no attribute on the model) is <<>>, a given
\* one <<t>>.
One == 10
Absent == <<>>

ArgThresholds == {Absent, <<0 - 1>>, <<0>>, <<5>>, <<One>>, <<One + 1>>}
ModelThresholds == {Absent, <<5>>, <<One + 2>>}
BatchSizes == {0, 1}

\* 0.0 <= args.confidence_threshold <= 1.0
ValidThresholdMut(t) == 0 < t /\ t < One
ValidThreshold(t) == 0 <= t /\ t <= One

InitClient ==
    /\ path \in PathKinds
    /\ dataset = "none"
    /\ client \in [pc : {"start"}, batch_size : BatchSizes,
                   confidence_threshold : ArgThresholds,
                   model_threshold : ModelThresholds,
                   threshold : {Absent}, applied : {Absent},
                   predicted : {FALSE}]
    /\ source = <<>>
    /\ num_workers = 0
    /\ cursor = [p \in {0} |-> 0]
    /\ its = <<>>
    /\ alphabet = NoAlphabet
    /\ vocab = EmptyDict
    /\ batch = <<>>
    /\ zero_padding = TRUE
    /\ collated = [kind |-> "none"]

ClientStep(pc) ==
    /\ client.pc = pc
    /\ UNCHANGED <<path, source, num_workers, cursor, its, alphabet, vocab,
                   batch, zero_padding, collated>>

\* if args.batch_size <= 0: sys.exit(...)
CheckArguments ==
    /\ ClientStep("start")
    /\ client' = [client EXCEPT !.pc = IF client.batch_size <= 0 THEN "exit"
                                       ELSE "checked"]
    /\ UNCHANGED dataset

\* dataset = ProteinDataset(args.file, ...), after the model is loaded
LoadDataset ==
    /\ ClientStep("checked")
    /\ dataset' = ProteinDataset_init(path)
    /\ client' = [client EXCEPT !.pc = IF dataset' = "open" THEN "loaded"
                                       ELSE "ValueError"]

\* the threshold to apply: the command line's, else the model's, else none
SetThreshold ==
    /\ ClientStep("loaded")
    /\ UNCHANGED dataset
    /\ client' =
         IF client.confidence_threshold # Absent
         THEN IF ValidThreshold(client.confidence_threshold[1])
              THEN [client EXCEPT !.pc = "resolved",
                                  !.threshold = client.confidence_threshold]
              ELSE [client EXCEPT !.pc = "RuntimeError"]
         ELSE IF client.model_threshold # Absent
         THEN [client EXCEPT !.pc = "resolved",
                             !.threshold = client.model_threshold]
         ELSE [client EXCEPT !.pc = "resolved", !.threshold = Absent]

\* preds, confs, ids, indices = predict(model, dataset, ...)
Predict ==
    /\ ClientStep("resolved")
    /\ UNCHANGED dataset
    /\ client' = [client EXCEPT !.pc = "predicted", !.predicted = TRUE]

\* df = create_df(..., threshold=threshold, ...)
CreateDf ==
    /\ ClientStep("predicted")
    /\ UNCHANGED dataset
    /\ client' = [client EXCEPT !.pc = "done", !.applied = client.threshold]

NextClient ==
    \/ CheckArguments
    \/ LoadDataset
    \/ SetThreshold
    \/ Predict
    \/ CreateDf

SpecClient == InitClient /\ [][NextClient]_vars

\* ================================================================== claims
\* Reading an identifier back: the digits before its first "_" as a number,
\* and the text after that "_".
FirstUnderscore(s) ==
    CHOOSE i \in 1..Len(s) : s[i] = "_" /\ \A j \in 1..(i - 1) : s[j] # "_"
RECURSIVE StrToInt(_)
StrToInt(d) ==
    IF Len(d) = 0 THEN 0
    ELSE 10 * StrToInt(SubSeq(d, 1, Len(d) - 1)) + (IndexIn(Digits, d[Len(d)]) - 1)
IsNumber(d) == Len(d) > 0 /\ \A i \in 1..Len(d) : Has(Digits, d[i])
HasPrefix(s) == Has(s, "_") /\ IsNumber(SubSeq(s, 1, FirstUnderscore(s) - 1))
PrefixOf(s) == StrToInt(SubSeq(s, 1, FirstUnderscore(s) - 1))
NativeOf(s) == SubSeq(s, FirstUnderscore(s) + 1, Len(s))

\* every character of the record is a letter of the alphabet, in either case
Encodable(rec) ==
    \A i \in 1..Len(rec.seq) : Has(ExtendedIUPACProtein, upper(rec.seq[i]))

\* the code of a letter: its 1-based place in the alphabet, in either case
ExpectedCode(c) == IndexIn(ExtendedIUPACProtein, upper(c))

\* the tuple t is the record at file position p under the identifier p_<id>
IsRecordAt(t, p) ==
    /\ p \in 1..Len(source)
    /\ HasPrefix(t.id)
    /\ PrefixOf(t.id) = p
    /\ NativeOf(t.id) = source[p].id
    /\ t.string = source[p].seq

\* the shard of the iterator of process w, as the worker coordinates name it
WorkersOf == IF num_workers = 0 THEN 1 ELSE num_workers
ShardOf(w) == {p \in 1..Len(source) : (p - 1) % WorkersOf = w}

\* every loading process has run its loop to StopIteration
AllExhausted ==
    /\ Len(its) = Cardinality(Procs)
    /\ \A i \in 1..Len(its) : its[i].last.kind = "StopIteration"

Emissions == {<<i, k>> : i \in 1..Len(its), k \in 1..Len(source)}
Emitted == {e \in Emissions : e[2] <= Len(its[e[1]].out)}

\* C1: when every worker (one iterator per worker id, each on its own
\* generator) has run to exhaustion, each record p of the file was emitted
\* exactly once over all workers, as p_<id>, and nothing else was emitted.
C1_ShardsPartitionSource ==
    AllExhausted =>
        /\ \A p \in 1..Len(source) :
              Cardinality({e \in Emitted : IsRecordAt(its[e[1]].out[e[2]], p)}) = 1
        /\ \A e \in Emitted :
              \E p \in 1..Len(source) : IsRecordAt(its[e[1]].out[e[2]], p)
        /\ Cardinality(Emitted) = Len(source)
        /\ \A e, f \in Emitted :
              e # f => its[e[1]].out[e[2]].id # its[f[1]].out[f[2]].id

C1_Witness ==
    /\ AllExhausted
    /\ num_workers = 2
    /\ Len(source) = 3
    /\ Len(its[1].out) + Len(its[2].out) = 3

\* C2: the k-th value a worker's iterator returns is the record at file
\* position worker_id + 1 + (k-1)*num_workers, under that position's
\* identifier; once exhausted it has returned exactly the positions p with
\* (p - 1) mod num_workers = worker_id.
C2_StridePositions ==
    \A i \in 1..Len(its) :
        LET w == its[i].proc
            o == its[i].out
        IN /\ \A k \in 1..Len(o) :
                 /\ its[i].ranks[k] = w + 1 + (k - 1) * WorkersOf
                 /\ IsRecordAt(o[k], w + 1 + (k - 1) * WorkersOf)
           /\ \A k \in 1..(Len(o) - 1) :
                 PrefixOf(o[k + 1].id) - PrefixOf(o[k].id) = WorkersOf
           /\ its[i].last.kind = "StopIteration" =>
                 {PrefixOf(o[k].id) : k \in 1..Len(o)} = ShardOf(w)

C2_Witness ==
    \E i \in 1..Len(its) :
        /\ num_workers = 2
        /\ its[i].proc = 1
        /\ Len(its[i].out) = 1
        /\ its[i].last.kind = "StopIteration"
        /\ Len(source) = 3

\* C3: the number before the first "_" of every identifier returned is the
\* file position of the record the tuple was read from, whatever iterators
\* were made from the dataset and however they were called.
C3_PrefixIsRank ==
    \A i \in 1..Len(its) : \A k \in 1..Len(its[i].out) :
        /\ PrefixOf(its[i].out[k].id) = its[i].ranks[k]
        /\ IsRecordAt(its[i].out[k], its[i].ranks[k])

\* what an iterator made with no worker context returns over calls calls
\* when nothing else draws from the file: the encodable ones among the
\* first calls records, in file order
SoloPositions(calls) ==
    LET m == IF calls <= Len(source) THEN calls ELSE Len(source)
        IsEncodable(p) == Encodable(source[p])
    IN SelectSeq([p \in 1..m |-> p], IsEncodable)

\* C4: every iterator obtained from the dataset returns exactly what it
\* would return as the only consumer of the file, whatever the other
\* iterators of the dataset do in between.
C4_IteratorsDoNotInterfere ==
    \A i \in 1..Len(its) :
        LET ps == SoloPositions(its[i].calls)
        IN /\ Len(its[i].out) = Len(ps)
           /\ \A k \in 1..Len(ps) : IsRecordAt(its[i].out[k], ps[k])

\* C5: without a worker context, and with one worker, the iterator is made
\* with start 0 and step 0, returns record k as its k-th value under the
\* identifier k_<id>, and is exhausted after all records of the file.
C5_SequentialIteration ==
    num_workers \in {0, 1} =>
        \A i \in 1..Len(its) :
            /\ its[i].start = 0 /\ its[i].step = 0
            /\ Len(its[i].out) <= Len(source)
            /\ \A k \in 1..Len(its[i].out) :
                  /\ IsRecordAt(its[i].out[k], k)
                  /\ its[i].out[k].encoded =
                         [j \in 1..Len(source[k].seq) |-> ExpectedCode(source[k].seq[j])]
            /\ its[i].last.kind = "StopIteration" =>
                  Len(its[i].out) = Len(source)

C5_Witness ==
    /\ num_workers = 0
    /\ Len(its) = 1
    /\ Len(source) = 3
    /\ Len(its[1].out) = 3
    /\ its[1].last.kind = "StopIteration"

Collated == collated # [kind |-> "none"]

\* C6: for a non-empty batch of n tuples, collate_sequences returns a matrix
\* of n rows, each as long as the longest encoded sequence of the batch,
\* row i holding tuple i's codes in order followed by zeros only, and the
\* identifiers of the tuples in the order of the rows.
C6_ZeroPaddedMatrix ==
    (Collated /\ zero_padding /\ Len(batch.items) >= 1) =>
        LET b == batch.items
            n == Len(b)
            lens == {Len(b[i].encoded) : i \in 1..n}
            longest == CHOOSE l \in lens : \A m \in lens : m <= l
        IN /\ collated.kind = "value"
           /\ collated.shape = <<n, longest>>
           /\ Len(collated.sequences) = n
           /\ Len(collated.ids) = n
           /\ \A i \in 1..n :
                 /\ Len(collated.sequences[i]) = longest
                 /\ \A c \in 1..longest :
                       collated.sequences[i][c] =
                           IF c <= Len(b[i].encoded) THEN b[i].encoded[c] ELSE 0
                 /\ collated.ids[i] = b[i].id

C6_Witness ==
    /\ Collated
    /\ zero_padding
    /\ batch.list
    /\ Len(batch.items) = 2
    /\ batch.items[1].id # batch.items[2].id
    /\ Len(batch.items[1].encoded) = 2
    /\ Len(batch.items[2].encoded) = 1
    /\ collated.kind = "value"
    /\ collated.sequences[2][2] = 0

\* C7: collate_sequences on an empty batch fails with a ConfigurationError.
C7_EmptyBatchConfigurationError ==
    (Collated /\ zero_padding /\ Len(batch.items) = 0) =>
        collated.kind = "ConfigurationError"

\* no two letters of the alphabet are the same letter in either case
CaseDistinct(a) ==
    \A i, j \in 1..Len(a) : i # j => upper(a[i]) # upper(a[j])

LettersOf(a) == IF a = NoAlphabet THEN ExtendedIUPACProtein ELSE a
Codes(v) == {v[k] : k \in DOMAIN v}

VocabContract(a, v) ==
    /\ \A i \in 0..(Len(a) - 1) :
          /\ upper(a[i + 1]) \in DOMAIN v /\ v[upper(a[i + 1])] = i + 1
          /\ lower(a[i + 1]) \in DOMAIN v /\ v[lower(a[i + 1])] = i + 1
    /\ \A i, j \in 1..Len(a) : i # j => v[a[i]] # v[a[j]]
    /\ Codes(v) = 1..Len(a)
    /\ 0 \notin Codes(v)
    /\ DOMAIN v = {upper(a[i]) : i \in 1..Len(a)} \cup {lower(a[i]) : i \in 1..Len(a)}

\* C8 as stated: for every alphabet of pairwise distinct symbols the
\* vocabulary gives code i + 1 to both cases of the letter at position i,
\* distinct letters have distinct codes, the codes are exactly
\* 1..len(alphabet) and 0 is no code.
C8_DenseCodesAnyAlphabet ==
    vocab # NotBuilt => VocabContract(LettersOf(alphabet), vocab)

\* C8, amended: the same for every alphabet whose letters are pairwise
\* distinct when case is ignored.
C8_DenseCodesCaseDistinct ==
    (vocab # NotBuilt /\ CaseDistinct(LettersOf(alphabet))) =>
        VocabContract(LettersOf(alphabet), vocab)

C8_Witness ==
    /\ vocab # NotBuilt
    /\ alphabet = <<"a", "C", "*">>
    /\ vocab["A"] = 1 /\ vocab["a"] = 1 /\ vocab["c"] = 2 /\ vocab["*"] = 3

\* an iterator whose latest __next__ call failed with an error
Failed(it) == it.last.kind \notin {"none", "value", "StopIteration"}

\* C9: the error of a failed encoding names the offending character and
\* its position in the sequence.
C9_ErrorNamesCharacterAndPosition ==
    \A i \in 1..Len(its) :
        Failed(its[i]) =>
            LET seq == source[its[i].fetched].seq
                bad == {j \in 1..Len(seq) : ~Has(ExtendedIUPACProtein, upper(seq[j]))}
            IN /\ Len(its[i].last.args) = 2
               /\ its[i].last.args[1] \in {seq[j] : j \in bad}
               /\ its[i].last.args[2] \in {j - 1 : j \in bad} \cup bad

\* C10: a __next__ call that read a record with a character outside the
\* alphabet ends with an error, not with a value and not with
\* StopIteration, and returns no tuple for that record; so the loop of a
\* process whose shard holds such a record never ends by StopIteration.
C10_EncodingFailureSurfaces ==
    \A i \in 1..Len(its) :
        /\ (its[i].fetched > 0 /\ ~Encodable(source[its[i].fetched])) =>
              /\ Failed(its[i])
              /\ \A k \in 1..Len(its[i].out) : its[i].ranks[k] # its[i].fetched
        /\ \A k \in 1..Len(its[i].out) : Encodable(source[its[i].ranks[k]])
        /\ (\E p \in ShardOf(its[i].proc) : ~Encodable(source[p])) =>
              its[i].last.kind # "StopIteration"

C10_Witness ==
    \E i \in 1..Len(its) :
        /\ Failed(its[i])
        /\ its[i].fetched = 2
        /\ Len(its[i].out) = 1
        /\ Len(source) = 3

\* C11: an iterator is constructed only with worker_id < num_workers; other
\* coordinates are rejected.
C11_WorkerIdBelowNumWorkers ==
    \A i \in 1..Len(its) : its[i].start < num_workers

\* the source runs out in the coming call: fewer records are left than the
\* call skips and fetches
RunsOut(it) ==
    cursor[it.proc] + (IF it.calls = 0 THEN it.start ELSE num_workers - 1) + 1
        > Len(source)

\* C16: a call in which the source runs out, in the skip or at the fetch,
\* ends with StopIteration and returns no tuple; only positions
\* worker_id + 1 + j * num_workers inside the file are ever returned, and
\* none at all when worker_id >= M.
C16_RunningOutIsEndOfSequence ==
    [][(Len(its) = 1 /\ Len(its') = 1) =>
          /\ RunsOut(its[1]) =>
                /\ its'[1].last.kind = "StopIteration"
                /\ its'[1].out = its[1].out
          /\ \A k \in 1..Len(its'[1].out) :
                /\ its'[1].ranks[k] \in 1..Len(source)
                /\ (its'[1].ranks[k] - its'[1].start - 1) % num_workers = 0
                /\ IsRecordAt(its'[1].out[k], its'[1].ranks[k])
          /\ its'[1].start >= Len(source) => its'[1].out = <<>>]_vars

C16_Witness ==
    /\ Len(its) = 1
    /\ num_workers = 3
    /\ Len(source) = 2
    /\ its[1].start = 0
    /\ its[1].calls = 2
    /\ Len(its[1].out) = 1
    /\ its[1].last.kind = "StopIteration"

\* C17: once a call has ended with StopIteration, every later call on that
\* iterator ends with StopIteration and returns nothing.
C17_ExhaustedIsTerminal ==
    [][\A i \in 1..Len(its) :
          (Len(its') = Len(its) /\ its[i].last.kind = "StopIteration") =>
              /\ its'[i].last.kind = "StopIteration"
              /\ its'[i].out = its[i].out]_vars

C17_Witness ==
    /\ Len(its) = 1
    /\ its[1].last.kind = "StopIteration"
    /\ Len(its[1].out) >= 1
    /\ its[1].pos > Len(source) + 2 * num_workers

AllEncodable == \A p \in 1..Len(source) : Encodable(source[p])

\* ceil((M - worker_id) / num_workers), 0 when worker_id >= M
ShardSize(w) ==
    IF w >= Len(source) THEN 0
    ELSE (Len(source) - w + num_workers - 1) \div num_workers

\* C18: an iterator that is called again and again reaches StopIteration,
\* and over a file of encodable records it has then returned exactly
\* ceil((M - worker_id) / num_workers) tuples.
C18_ReachesExhaustion ==
    /\ <>(Len(its) = 1 /\ its[1].last.kind = "StopIteration")
    /\ [](\A i \in 1..Len(its) :
             (its[i].last.kind = "StopIteration" /\ AllEncodable) =>
                 Len(its[i].out) = ShardSize(its[i].start))

C18_Witness ==
    /\ Len(its) = 1
    /\ AllEncodable
    /\ num_workers = 2
    /\ its[1].start = 0
    /\ Len(source) = 3
    /\ Len(its[1].out) = 2
    /\ its[1].last.kind = "StopIteration"

\* C19: after a call that failed on the record at position p, self.pos is
\* the position the generator stands at, and the next call that returns a
\* tuple returns the record at p + num_workers under the prefix
\* p + num_workers; every tuple returned carries its record's position.
C19_FailureKeepsBookkeeping ==
    /\ [](\A i \in 1..Len(its) :
             /\ (its[i].calls > 0 /\ its[i].pos <= Len(source)) =>
                    cursor[its[i].proc] = its[i].pos
             /\ Failed(its[i]) => its[i].fetched = its[i].pos
             /\ \A k \in 1..Len(its[i].out) :
                    IsRecordAt(its[i].out[k], its[i].ranks[k]))
    /\ [][(Len(its) = 1 /\ Len(its') = 1 /\ Failed(its[1])
             /\ its'[1].last.kind = "value") =>
             /\ its'[1].fetched = its[1].fetched + num_workers
             /\ its'[1].ranks[Len(its'[1].ranks)] = its[1].fetched + num_workers
             /\ IsRecordAt(its'[1].out[Len(its'[1].out)],
                           its[1].fetched + num_workers)]_vars

C19_Witness ==
    /\ Len(its) = 1
    /\ num_workers = 2
    /\ its[1].start = 0
    /\ Len(source) = 3
    /\ ~Encodable(source[1])
    /\ its[1].calls = 2
    /\ its[1].last.kind = "value"
    /\ its[1].ranks = <<3>>

\* C12: on a path that names no regular existing file the construction of
\* the dataset fails: no dataset object results, no iterator is obtained
\* and no record is read.
C12_NoDatasetWithoutFile ==
    path # "file" =>
        /\ dataset \in {"none", "ValueError"}
        /\ its = <<>>
        /\ cursor[0] = 0

C12_Witness ==
    /\ path = "directory"
    /\ dataset = "ValueError"

\* C13: with zero_padding disabled collate_sequences fails with
\* NotImplementedError for every batch and returns nothing.
C13_NoPaddingNotImplemented ==
    (Collated /\ ~zero_padding) => collated = [kind |-> "NotImplementedError"]

C13_Witness ==
    /\ Collated
    /\ ~zero_padding
    /\ Len(batch.items) = 1
    /\ collated.kind = "NotImplementedError"

\* C14: gen_amino_acid_vocab on an empty alphabet fails with a
\* ConfigurationError and returns no mapping.
C14_EmptyAlphabetConfigurationError ==
    (vocab # NotBuilt /\ alphabet = <<>>) =>
        vocab = [kind |-> "ConfigurationError"]

\* the run has got past the choice of the threshold
PastThreshold == client.pc \in {"resolved", "predicted", "done"}

\* C20: a threshold given on the command line is the one applied when it
\* lies in [0.0, 1.0], and else the run ends with an error and predicts
\* nothing; with none given the model's threshold is applied when the
\* model has one, and none otherwise.
C20_ThresholdPriority ==
    LET given == client.confidence_threshold
        inRange == given # Absent /\ given[1] >= 0 /\ given[1] <= One
    IN /\ (given # Absent /\ ~inRange) => (~PastThreshold /\ ~client.predicted)
       /\ client.pc = "RuntimeError" => (given # Absent /\ ~inRange)
       /\ PastThreshold =>
             client.threshold =
                 IF given # Absent THEN given
                 ELSE IF client.model_threshold # Absent
                      THEN client.model_threshold ELSE Absent
       /\ client.pc = "done" =>
             (client.predicted /\ client.applied = client.threshold)
       /\ client.predicted => PastThreshold

C20_Witness ==
    /\ client.pc = "done"
    /\ client.confidence_threshold = <<0>>
    /\ client.model_threshold = <<5>>
    /\ client.applied = <<0>>

====
